---- MODULE Spec2Model ----
(***************************************************************************)
(* Clock-in / clock-out sessions with GPS admission, as implemented by the *)
(* FastAPI handlers of server.py over the MongoDB collections projects,     *)
(* clock_entries and gps_logs.  Every handler is cut at its awaits: one     *)
(* action is one database call together with the synchronous code that      *)
(* follows it up to the next await.                                          *)
(*                                                                           *)
(* Units.  Coordinates are whole metres of arc north / east of the point    *)
(* (0.0, 0.0), where the Haversine distance of two nearby points is the     *)
(* length of the straight line between them.  Distances are centimetres,    *)
(* rounded up to the next centimetre, so that "distance > n metres" has the *)
(* same truth value as for the real-valued distance.  Instants are whole    *)
(* seconds, stored hours are hundredths of an hour; the overview adds them  *)
(* as floats.                                                                *)
(***************************************************************************)
EXTENDS Integers, Sequences, FiniteSets, TLC

(* ------------------------------ bounds --------------------------------- *)

\* number of handler invocations that can be in flight at the same time
NumReq == 2

\* number of clock entry ids (uuid4 values) that can be handed out
MaxEntries == 2

\* number of gps_logs documents
MaxLogs == 2

\* last instant of the wall clock
MaxNow == 16254

\* number of clock entries the collection holds when the overview is asked
MaxStored == 3

(* ------------------------- encodings of Python values ------------------ *)

\* a key that the stored document does not have
Absent == -2

\* None in a numeric field
Null == -1

\* None in a string or bool field
None == "None"

\* centimetres per metre
Centi == 100

NoLocation == [latitude |-> Null, longitude |-> Null]

\* bool(x) of an Optional[float] read with dict.get
Truthy(x) == x # Absent /\ x # Null /\ x # 0

PyBool(b) == IF b THEN "True" ELSE "False"

\* int(distance): whole metres, truncated
IntMetres(d) == d \div Centi

(* ------------------------------ constants ------------------------------ *)

DEFAULT_PROJECT_MATCH_RADIUS == 250

\* the admission check uses the radius of the reports
StrictRadiusOfReports == DEFAULT_PROJECT_MATCH_RADIUS

\* "STRICT: Must be within 50 meters"
STRICT_RADIUS == 50

\* default of project.get("location_radius", 100.0) in clock_in
DEFAULT_LOCATION_RADIUS == 100

(* ------------------------------- inputs -------------------------------- *)

Req == 1..NumReq

EntryIds == 1..MaxEntries

\* the project ids (uuid4 values) in use
ProjectIds == {"p1"}

\* users.role: w1 is an employee, w2 an admin (admins clock in as well)
Users == {"w1", "w2"}

Role(u) == IF u = "w2" THEN "admin" ELSE "employee"

\* User.full_name
FullName(u) == IF u = "w1" THEN "Wim Een" ELSE "Wil Twee"

\* instants at which the wall clock is read; 16254 - 54 s = 4 h 30 min
Instants == {t \in {0, 54, 16254} : t <= MaxNow}

\* ProjectCreate payloads of create_project and update_project
Kantoor == [name |-> "Kantoor", company |-> "Acme", location |-> "Utrecht",
            latitude |-> 40, longitude |-> 100, location_radius |-> 100]

\* an advisory radius below the strict radius, other name, company and label
Loods == [name |-> "Loods", company |-> "Bolt", location |-> "Zeist",
          latitude |-> 40, longitude |-> 100, location_radius |-> 30]

\* latitude and longitude left at their default None
NoGps == [name |-> "Kantoor", company |-> "Acme", location |-> "Utrecht",
          latitude |-> Null, longitude |-> Null, location_radius |-> 100]

\* a site on the equator: latitude 0.0
Evenaar == [name |-> "Evenaar", company |-> "Acme", location |-> "Quito",
            latitude |-> 0, longitude |-> 100, location_radius |-> 100]

\* "location_radius": null in the payload
NoRadius == [name |-> "Kantoor", company |-> "Acme", location |-> "Utrecht",
             latitude |-> 40, longitude |-> 100, location_radius |-> Null]

ProjectForms == {Kantoor, Loods, NoGps, Evenaar, NoRadius}

\* a project document of a backup file, in the layout with location_lat and
\* location_lon
Archief == [name |-> "Archief", company |-> "Acme", location |-> "Utrecht",
            latitude |-> Absent, longitude |-> Absent, location_radius |-> Absent,
            active |-> TRUE, location_lat |-> 40, location_lon |-> 100]

\* a project document of a backup file without the key location_radius
Werf == [name |-> "Werf", company |-> "Acme", location |-> "Utrecht",
         latitude |-> 40, longitude |-> 100, location_radius |-> Absent,
         active |-> TRUE, location_lat |-> Absent, location_lon |-> Absent]

ImportedProjects == {Archief, Werf}

\* Location payloads: on the site (40, 100), which is 40 m from (0, 100);
\* exactly 50 m, 50.01 m, 120 m and 10 km from the site
OnSite == [latitude |-> 40, longitude |-> 100]

At50 == [latitude |-> 90, longitude |-> 100]

Past50 == [latitude |-> 90, longitude |-> 101]

At120 == [latitude |-> 40, longitude |-> 220]

At10km == [latitude |-> 40, longitude |-> 10100]

Locations == {OnSite, At50, Past50, At120, At10km}

(* ------------------------------ arithmetic ----------------------------- *)

RECURSIVE SqrtSearch(_, _, _)
\* the largest m in lo..hi with m * m <= k
SqrtSearch(k, lo, hi) ==
    IF lo >= hi THEN lo
    ELSE LET mid == (lo + hi + 1) \div 2
         IN  IF mid * mid <= k THEN SqrtSearch(k, mid, hi)
             ELSE SqrtSearch(k, lo, mid - 1)

\* floor of the square root
ISqrt(k) == SqrtSearch(k, 0, 46340)

\* sqrt(k) metres in centimetres, rounded up
SqrtCentiUp(k) ==
    LET w == ISqrt(k)
        rem == k - w * w
        c == CHOOSE x \in 0..99 :
                 /\ 200 * w * x + x * x <= 10000 * rem
                 /\ \A y \in (x + 1)..99 : 200 * w * y + y * y > 10000 * rem
        exact == 200 * w * c + c * c = 10000 * rem
    IN  100 * w + c + (IF exact THEN 0 ELSE 1)

\* the way south is not counted: delta_lat is taken as zero when negative
CalculateDistanceNorthward(lat1, lon1, lat2, lon2) ==
    LET delta_lat == IF lat2 > lat1 THEN lat2 - lat1 ELSE 0
        delta_lon == lon2 - lon1
        a == delta_lat * delta_lat + delta_lon * delta_lon
    IN  SqrtCentiUp(a)

\* Haversine distance of (lat1, lon1) and (lat2, lon2)
calculate_distance(lat1, lon1, lat2, lon2) ==
    LET delta_lat == lat2 - lat1
        delta_lon == lon2 - lon1
        a == delta_lat * delta_lat + delta_lon * delta_lon
    IN  SqrtCentiUp(a)

\* durations s = 18 (mod 36), up to 16400 s, at which the float s / 3600
\* lies below the midpoint of two hundredths
HalfBelow ==
  { 54, 162, 270, 378, 450, 522, 558, 630, 666, 738, 774, 846, 882, 1026,
    1062, 1098, 1242, 1278, 1314, 1494, 1530, 1566, 1710, 1746, 1782, 2034,
    2070, 2106, 2142, 2178, 2214, 2250, 2502, 2538, 2574, 2610, 2646, 2682,
    2934, 2970, 3006, 3042, 3078, 3114, 3402, 3438, 3474, 3510, 3546, 3582,
    3618, 3654, 3690, 3726, 3762, 3798, 3834, 3870, 3906, 3942, 3978, 4014,
    4050, 4518, 4554, 4590, 4626, 4662, 4698, 4734, 4770, 4806, 4842, 4878,
    4914, 5418, 5454, 5490, 5526, 5562, 5598, 5634, 5670, 5706, 5742, 5778,
    5814, 5850, 6318, 6354, 6390, 6426, 6462, 6498, 6534, 6570, 6606, 6642,
    6678, 6714, 7218, 7290, 7362, 7434, 7506, 7578, 7650, 7686, 7758, 7830,
    7902, 7974, 8046, 8118, 8190, 8262, 8334, 8406, 8478, 8586, 8658, 8730,
    8802, 8874, 8946, 9018, 9090, 9162, 9234, 9306, 9378, 9450, 9486, 9558,
    9630, 9702, 9774, 9846, 9918, 9990, 10062, 10134, 10206, 10278, 10386,
    10458, 10530, 10602, 10674, 10746, 10818, 10890, 10962, 11034, 11106,
    11178, 11250, 11286, 11358, 11430, 11502, 11574, 11646, 11718, 11790,
    11862, 11934, 12006, 12078, 12186, 12258, 12330, 12402, 12474, 12546,
    12618, 12690, 12762, 12834, 12906, 12978, 13050, 13086, 13158, 13230,
    13302, 13374, 13446, 13518, 13590, 13662, 13734, 13806, 13878, 13986,
    14058, 14130, 14202, 14274, 14346, 14418, 14454, 14562, 14598, 14706,
    14742, 14850, 14886, 14922, 15030, 15066, 15174, 15210, 15318, 15354,
    15462, 15498, 15606, 15642, 15786, 15822, 15930, 15966, 16074, 16110,
    16218, 16254, 16362, 16398 }

\* round(seconds / 3600, 1): the hours are rounded to one decimal
RoundHoursOneDecimal(seconds) == ((seconds + 180) \div 360) * 10

\* round(seconds / 3600, 2), in hundredths of an hour
RoundHours(seconds) ==
    IF seconds % 36 = 18 /\ seconds \in HalfBelow
    THEN seconds \div 36
    ELSE (seconds + 18) \div 36

(* ------------------------------- state --------------------------------- *)

VARIABLES
    projects,        \* db.projects: project id -> document
    clock_entries,   \* db.clock_entries: entry id -> document
    gps_logs,        \* db.gps_logs: documents in insertion order
    next_entry_id,   \* the next uuid4 of a ClockEntry
    now,             \* datetime.now(timezone.utc)
    pc,              \* per invocation: the await it is suspended at
    call,            \* per invocation: handler, current_user and arguments
    local,           \* per invocation: local variables alive across awaits
    result           \* per invocation: the response

vars == <<projects, clock_entries, gps_logs, next_entry_id, now,
          pc, call, local, result>>

NoCall == [op |-> "none", user |-> "none", project_id |-> "none", entry_id |-> 0,
           location |-> NoLocation, note |-> None]

\* a collection without documents
Empty == [x \in {} |-> x]

NoLocal == [kind |-> "none"]

NoResult == [status |-> 0, error |-> "pending", detail |-> <<>>]

\* a 200 response
Ok == [status |-> 200, error |-> "none", detail |-> <<>>]

\* raise HTTPException(status_code, detail), named by its error kind
HTTPException(status_code, kind, detail) ==
    [status |-> status_code, error |-> kind, detail |-> detail]

Init ==
    /\ projects = Empty
    /\ clock_entries = Empty
    /\ gps_logs = <<>>
    /\ next_entry_id = 1
    /\ now = 0
    /\ pc = [r \in Req |-> "idle"]
    /\ call = [r \in Req |-> NoCall]
    /\ local = [r \in Req |-> NoLocal]
    /\ result = [r \in Req |-> NoResult]

(* ------------------------------ helpers -------------------------------- *)

\* invocation r is not suspended inside a handler
Idle(r) == pc[r] = "idle"

InFlight(labels) == {q \in Req : pc[q] \in labels}

\* the query asks for a status that is never stored
FindActiveEntryWrongStatus(u) ==
    {e \in DOMAIN clock_entries :
        clock_entries[e].user_id = u /\ clock_entries[e].status = "active"}

\* the query finds only the entries opened at this instant
FindActiveEntryOpenedNow(u) ==
    {e \in DOMAIN clock_entries :
        /\ clock_entries[e].user_id = u
        /\ clock_entries[e].status = "clocked_in"
        /\ clock_entries[e].clock_in_time = now}

\* find_one({"user_id": u, "status": "clocked_in"}): the entries it can return
FindActiveEntry(u) ==
    {e \in DOMAIN clock_entries :
        clock_entries[e].user_id = u /\ clock_entries[e].status = "clocked_in"}

\* the project is looked up without the filter on active
ProjectFoundInactiveToo(project_id) ==
    project_id \in DOMAIN projects

\* find_one({"id": project_id, "active": True}) returns a document
ProjectFound(project_id) ==
    project_id \in DOMAIN projects /\ projects[project_id].active

\* a new invocation of handler op by user u
Begin(r, op, u, pid, eid, loc, note) ==
    /\ Idle(r)
    /\ call' = [call EXCEPT ![r] =
                  [op |-> op, user |-> u, project_id |-> pid, entry_id |-> eid,
                   location |-> loc, note |-> note]]

\* the handler returns or raises: the invocation ends with response res
Finish(r, res) ==
    /\ pc' = [pc EXCEPT ![r] = "done"]
    /\ local' = [local EXCEPT ![r] = NoLocal]
    /\ result' = [result EXCEPT ![r] = res]

\* the handler suspends at the await named label
Suspend(r, label, loc) ==
    /\ pc' = [pc EXCEPT ![r] = label]
    /\ local' = [local EXCEPT ![r] = loc]
    /\ result' = [result EXCEPT ![r] = NoResult]

\* update_one(..., {"$set": update_data}) on one document
SetFields(doc, update_data) ==
    [k \in DOMAIN doc |->
        IF k \in DOMAIN update_data THEN update_data[k] ELSE doc[k]]

(* ------------------------------ projects ------------------------------- *)

\* POST /projects
create_project(project_id, project_data) ==
    /\ project_id \in ProjectIds \ DOMAIN projects
    \* Project(**project_data.model_dump()) takes no None for location_radius
    /\ project_data.location_radius # Null
    /\ projects' = [p \in DOMAIN projects \cup {project_id} |->
                      IF p \in DOMAIN projects THEN projects[p]
                      ELSE [name |-> project_data.name,
                            company |-> project_data.company,
                            location |-> project_data.location,
                            latitude |-> project_data.latitude,
                            longitude |-> project_data.longitude,
                            location_radius |-> project_data.location_radius,
                            active |-> TRUE,
                            location_lat |-> Absent,
                            location_lon |-> Absent]]
    /\ UNCHANGED <<clock_entries, gps_logs, next_entry_id, now,
                   pc, call, local, result>>

\* the new name, company and label are copied to the entries of the project
UpdateProjectRenamesEntries(project_id, project_data) ==
    /\ project_id \in DOMAIN projects
    /\ projects' = [projects EXCEPT ![project_id] = SetFields(@, project_data)]
    /\ clock_entries' =
           [e \in DOMAIN clock_entries |->
               IF clock_entries[e].project_id = project_id
               THEN SetFields(clock_entries[e],
                              [project_name |-> project_data.name,
                               company |-> project_data.company,
                               project_location |-> project_data.location])
               ELSE clock_entries[e]]
    /\ UNCHANGED <<gps_logs, next_entry_id, now, pc, call, local, result>>

\* PUT /projects/{project_id}
update_project(project_id, project_data) ==
    /\ project_id \in DOMAIN projects
    /\ projects' = [projects EXCEPT ![project_id] = SetFields(@, project_data)]
    /\ UNCHANGED <<clock_entries, gps_logs, next_entry_id, now,
                   pc, call, local, result>>

\* DELETE /projects/{project_id}
delete_project(project_id) ==
    /\ project_id \in DOMAIN projects
    /\ projects' = [projects EXCEPT ![project_id] =
                      SetFields(@, [active |-> FALSE])]
    /\ UNCHANGED <<clock_entries, gps_logs, next_entry_id, now,
                   pc, call, local, result>>

\* POST /admin/backup/import, the projects of the file
import_backup(project_id, project) ==
    /\ project_id \in ProjectIds \ DOMAIN projects
    /\ projects' = [p \in DOMAIN projects \cup {project_id} |->
                      IF p = project_id THEN project ELSE projects[p]]
    /\ UNCHANGED <<clock_entries, gps_logs, next_entry_id, now,
                   pc, call, local, result>>

(* ------------------------------ clock_in ------------------------------- *)

\* the warning is not passed on to the entry
ClockEntryNoWarning(u, project_id, project, location, note, distance, warning, match) ==
    [user_id |-> u,
     user_name |-> FullName(u),
     project_id |-> project_id,
     project_name |-> project.name,
     company |-> project.company,
     project_location |-> project.location,
     clock_in_time |-> now,
     clock_in_location |-> location,
     clock_out_time |-> Null,
     clock_out_location |-> NoLocation,
     clock_out_distance_m |-> Null,
     clock_out_match |-> None,
     clock_out_warning |-> <<>>,
     total_hours |-> Null,
     status |-> "clocked_in",
     location_warning |-> <<>>,
     distance_to_project_m |-> distance,
     project_match |-> match,
     note |-> note]

\* ClockEntry(...) of clock_in, as stored by model_dump
ClockEntry(u, project_id, project, location, note, distance, warning, match) ==
    [user_id |-> u,
     user_name |-> FullName(u),
     project_id |-> project_id,
     project_name |-> project.name,
     company |-> project.company,
     project_location |-> project.location,
     clock_in_time |-> now,
     clock_in_location |-> location,
     clock_out_time |-> Null,
     clock_out_location |-> NoLocation,
     clock_out_distance_m |-> Null,
     clock_out_match |-> None,
     clock_out_warning |-> <<>>,
     total_hours |-> Null,
     status |-> "clocked_in",
     location_warning |-> warning,
     distance_to_project_m |-> distance,
     project_match |-> match,
     note |-> note]

\* the site is looked up before the open entry of the user
ClockInFindActiveSiteFirst(r, u, project_id, location, note) ==
    /\ Begin(r, "clock_in", u, project_id, 0, location, note)
    /\ IF ~ProjectFound(project_id)
       THEN Finish(r, HTTPException(404, "SiteNotFound", <<>>))
       ELSE IF FindActiveEntry(u) # {}
       THEN Finish(r, HTTPException(400, "AlreadyClockedIn", <<>>))
       ELSE /\ next_entry_id + Cardinality(InFlight({"ci_find_project"}))
                   <= MaxEntries
            /\ Suspend(r, "ci_find_project", NoLocal)
    /\ UNCHANGED <<projects, clock_entries, gps_logs, next_entry_id, now>>

\* clock_in up to its first await: has the user an open entry?
ClockInFindActive(r, u, project_id, location, note) ==
    /\ Begin(r, "clock_in", u, project_id, 0, location, note)
    /\ IF FindActiveEntry(u) # {}
       THEN Finish(r, HTTPException(400, "AlreadyClockedIn", <<>>))
       ELSE /\ next_entry_id + Cardinality(InFlight({"ci_find_project"}))
                   <= MaxEntries
            /\ Suspend(r, "ci_find_project", NoLocal)
    /\ UNCHANGED <<projects, clock_entries, gps_logs, next_entry_id, now>>

\* the check of the coordinate is left out
HasGpsLocationUnchecked(project) == TRUE

\* not (not project.get("latitude") or not project.get("longitude"))
HasGpsLocation(project) ==
    Truthy(project.latitude) /\ Truthy(project.longitude)

\* clock_in from the project lookup to the insert
ClockInFindProject(r) ==
    /\ pc[r] = "ci_find_project"
    /\ LET c == call[r]
       IN  IF ~ProjectFound(c.project_id)
           THEN /\ Finish(r, HTTPException(404, "SiteNotFound", <<>>))
                /\ UNCHANGED next_entry_id
           ELSE LET project == projects[c.project_id]
                IN  IF ~HasGpsLocation(project)
                    THEN /\ Finish(r, HTTPException(400, "SiteMissingLocation", <<>>))
                         /\ UNCHANGED next_entry_id
                    ELSE LET distance_to_project ==
                                 calculate_distance(c.location.latitude,
                                                    c.location.longitude,
                                                    project.latitude,
                                                    project.longitude)
                             project_match ==
                                 distance_to_project
                                     <= DEFAULT_PROJECT_MATCH_RADIUS * Centi
                             radius ==
                                 IF project.location_radius = Absent
                                 THEN DEFAULT_LOCATION_RADIUS
                                 ELSE project.location_radius
                             location_warning ==
                                 IF distance_to_project > radius * Centi
                                 THEN <<IntMetres(distance_to_project)>>
                                 ELSE <<>>
                         IN  IF distance_to_project > STRICT_RADIUS * Centi
                             THEN /\ Finish(r, HTTPException(403, "OutOfRangeError",
                                        <<IntMetres(distance_to_project),
                                          STRICT_RADIUS>>))
                                  /\ UNCHANGED next_entry_id
                             ELSE IF radius = Null
                             THEN \* distance_to_project > None
                                  /\ Finish(r, HTTPException(500, "TypeError", <<>>))
                                  /\ UNCHANGED next_entry_id
                             ELSE /\ Suspend(r, "ci_insert",
                                        [id |-> next_entry_id,
                                         entry |-> ClockEntry(c.user, c.project_id,
                                             project, c.location, c.note,
                                             distance_to_project, location_warning,
                                             PyBool(project_match))])
                                  /\ next_entry_id' = next_entry_id + 1
    /\ UNCHANGED <<projects, clock_entries, gps_logs, now, call>>

\* the entry replaces an entry of the same user (an upsert keyed by user_id)
ClockInInsertUpsert(r) ==
    /\ pc[r] = "ci_insert"
    /\ LET mine == {e \in DOMAIN clock_entries :
                       clock_entries[e].user_id = local[r].entry.user_id}
       IN  clock_entries' =
               IF mine # {}
               THEN [e \in DOMAIN clock_entries |->
                        IF e = CHOOSE m \in mine : TRUE THEN local[r].entry
                        ELSE clock_entries[e]]
               ELSE [e \in DOMAIN clock_entries \cup {local[r].id} |->
                        IF e = local[r].id THEN local[r].entry
                        ELSE clock_entries[e]]
    /\ Finish(r, Ok)
    /\ UNCHANGED <<projects, gps_logs, next_entry_id, now, call>>

\* insert_one(entry_dict) and the response
ClockInInsert(r) ==
    /\ pc[r] = "ci_insert"
    /\ clock_entries' =
           [e \in DOMAIN clock_entries \cup {local[r].id} |->
               IF e = local[r].id THEN local[r].entry ELSE clock_entries[e]]
    /\ Finish(r, Ok)
    /\ UNCHANGED <<projects, gps_logs, next_entry_id, now, call>>

(* ------------------------------ clock_out ------------------------------ *)

\* the geofence branch of clock_out and log_gps_position is entered
HasLocationLatLon(project_id) ==
    /\ project_id \in DOMAIN projects
    /\ Truthy(projects[project_id].location_lat)
    /\ Truthy(projects[project_id].location_lon)

\* the status of the entry is not looked at
ClockOutFindEntryUnchecked(r, u, entry_id, location, note) ==
    /\ Begin(r, "clock_out", u, "none", entry_id, location, note)
    /\ IF entry_id \notin DOMAIN clock_entries
       THEN Finish(r, HTTPException(404, "EntryNotFound", <<>>))
       ELSE LET entry == clock_entries[entry_id]
            IN  IF entry.user_id # u
                THEN Finish(r, HTTPException(403, "NotAuthorized", <<>>))
                ELSE Suspend(r, "co_find_project", [entry |-> entry])
    /\ UNCHANGED <<projects, clock_entries, gps_logs, next_entry_id, now>>

\* the owner of the entry is not looked at
ClockOutFindEntryAnyUser(r, u, entry_id, location, note) ==
    /\ Begin(r, "clock_out", u, "none", entry_id, location, note)
    /\ IF entry_id \notin DOMAIN clock_entries
       THEN Finish(r, HTTPException(404, "EntryNotFound", <<>>))
       ELSE LET entry == clock_entries[entry_id]
            IN  IF entry.status = "clocked_out"
                THEN Finish(r, HTTPException(400, "AlreadyClosed", <<>>))
                ELSE Suspend(r, "co_find_project", [entry |-> entry])
    /\ UNCHANGED <<projects, clock_entries, gps_logs, next_entry_id, now>>

\* clock_out up to the project lookup: the entry and the three checks on it
ClockOutFindEntry(r, u, entry_id, location, note) ==
    /\ Begin(r, "clock_out", u, "none", entry_id, location, note)
    /\ IF entry_id \notin DOMAIN clock_entries
       THEN Finish(r, HTTPException(404, "EntryNotFound", <<>>))
       ELSE LET entry == clock_entries[entry_id]
            IN  IF entry.user_id # u
                THEN Finish(r, HTTPException(403, "NotAuthorized", <<>>))
                ELSE IF entry.status = "clocked_out"
                THEN Finish(r, HTTPException(400, "AlreadyClosed", <<>>))
                ELSE Suspend(r, "co_find_project", [entry |-> entry])
    /\ UNCHANGED <<projects, clock_entries, gps_logs, next_entry_id, now>>

\* the status is left out of the update
UpdateDataWithoutStatus(location, note, total_hours) ==
    [clock_out_time |-> now,
     clock_out_location |-> location,
     clock_out_distance_m |-> Null,
     clock_out_match |-> None,
     clock_out_warning |-> <<>>,
     total_hours |-> total_hours]

\* "total_hours or None": zero hours are stored as None
UpdateDataHoursOrNone(location, note, total_hours) ==
    [clock_out_time |-> now,
     clock_out_location |-> location,
     clock_out_distance_m |-> Null,
     clock_out_match |-> None,
     clock_out_warning |-> <<>>,
     total_hours |-> IF total_hours = 0 THEN Null ELSE total_hours,
     status |-> "clocked_out"]

\* the note of the request is always part of the update
UpdateDataAlwaysNote(location, note, total_hours) ==
    [clock_out_time |-> now,
     clock_out_location |-> location,
     clock_out_distance_m |-> Null,
     clock_out_match |-> None,
     clock_out_warning |-> <<>>,
     total_hours |-> total_hours,
     status |-> "clocked_out",
     note |-> note]

\* update_data of clock_out; the note is set only when it is truthy
UpdateData(location, note, total_hours) ==
    LET base == [clock_out_time |-> now,
                 clock_out_location |-> location,
                 clock_out_distance_m |-> Null,
                 clock_out_match |-> None,
                 clock_out_warning |-> <<>>,
                 total_hours |-> total_hours,
                 status |-> "clocked_out"]
    IN  IF note # None /\ note # ""
        THEN [k \in DOMAIN base \cup {"note"} |->
                 IF k = "note" THEN note ELSE base[k]]
        ELSE base

\* clock_out from the project lookup to the update
ClockOutFindProject(r) ==
    /\ pc[r] = "co_find_project"
    /\ LET entry == local[r].entry
       IN  IF HasLocationLatLon(entry.project_id)
           THEN \* clock_data.location.lat: Location has no attribute lat
                Finish(r, HTTPException(500, "AttributeError", <<>>))
           ELSE LET clock_in_time == entry.clock_in_time
                    clock_out_time == now
                    time_diff == clock_out_time - clock_in_time
                    total_hours == RoundHours(time_diff)
                IN  Suspend(r, "co_update",
                        [update_data |-> UpdateData(call[r].location,
                                                    call[r].note, total_hours)])
    /\ UNCHANGED <<projects, clock_entries, gps_logs, next_entry_id, now, call>>

\* update_one({"id": entry_id}, {"$set": update_data})
ClockOutUpdate(r) ==
    /\ pc[r] = "co_update"
    /\ clock_entries' =
           IF call[r].entry_id \in DOMAIN clock_entries
           THEN [clock_entries EXCEPT ![call[r].entry_id] =
                    SetFields(@, local[r].update_data)]
           ELSE clock_entries
    /\ Suspend(r, "co_find_updated", NoLocal)
    /\ UNCHANGED <<projects, gps_logs, next_entry_id, now, call>>

\* the entry is read back for the response
ClockOutFindUpdated(r) ==
    /\ pc[r] = "co_find_updated"
    /\ IF call[r].entry_id \in DOMAIN clock_entries
       THEN Finish(r, Ok)
       ELSE \* updated_entry is None
            Finish(r, HTTPException(500, "TypeError", <<>>))
    /\ UNCHANGED <<projects, clock_entries, gps_logs, next_entry_id, now, call>>

(* --------------------------- log_gps_position -------------------------- *)

\* the status of the entry is not looked at
LogGpsFindEntryUnchecked(r, u, entry_id, location) ==
    /\ Begin(r, "log_gps_position", u, "none", entry_id, location, None)
    /\ IF entry_id \notin DOMAIN clock_entries
          \/ clock_entries[entry_id].user_id # u
       THEN Finish(r, HTTPException(404, "EntryNotFound", <<>>))
       ELSE /\ Len(gps_logs) + Cardinality(InFlight({"gl_find_project",
                                                      "gl_insert"})) < MaxLogs
            /\ Suspend(r, "gl_find_project",
                       [entry |-> clock_entries[entry_id]])
    /\ UNCHANGED <<projects, clock_entries, gps_logs, next_entry_id, now>>

\* log_gps_position up to the project lookup
LogGpsFindEntry(r, u, entry_id, location) ==
    /\ Begin(r, "log_gps_position", u, "none", entry_id, location, None)
    /\ IF entry_id \notin DOMAIN clock_entries
          \/ clock_entries[entry_id].user_id # u
       THEN Finish(r, HTTPException(404, "EntryNotFound", <<>>))
       ELSE IF clock_entries[entry_id].status # "clocked_in"
       THEN Finish(r, HTTPException(400, "SessionNotActive", <<>>))
       ELSE /\ Len(gps_logs) + Cardinality(InFlight({"gl_find_project",
                                                      "gl_insert"})) < MaxLogs
            /\ Suspend(r, "gl_find_project",
                       [entry |-> clock_entries[entry_id]])
    /\ UNCHANGED <<projects, clock_entries, gps_logs, next_entry_id, now>>

\* log_gps_position from the project lookup to the insert
LogGpsFindProject(r) ==
    /\ pc[r] = "gl_find_project"
    /\ IF HasLocationLatLon(local[r].entry.project_id)
       THEN \* location.lat: Location has no attribute lat
            Finish(r, HTTPException(500, "AttributeError", <<>>))
       ELSE Suspend(r, "gl_insert",
                [gps_log |-> [entry_id |-> call[r].entry_id,
                              user_id |-> call[r].user,
                              timestamp |-> now,
                              location |-> call[r].location,
                              distance_to_project |-> Null,
                              within_radius |-> None]])
    /\ UNCHANGED <<projects, clock_entries, gps_logs, next_entry_id, now, call>>

\* the collection keeps the latest position only
LogGpsInsertKeepsLatest(r) ==
    /\ pc[r] = "gl_insert"
    /\ gps_logs' = <<local[r].gps_log>>
    /\ Finish(r, Ok)
    /\ UNCHANGED <<projects, clock_entries, next_entry_id, now, call>>

\* gps_logs.insert_one(gps_log) and the response
LogGpsInsert(r) ==
    /\ pc[r] = "gl_insert"
    /\ gps_logs' = Append(gps_logs, local[r].gps_log)
    /\ Finish(r, Ok)
    /\ UNCHANGED <<projects, clock_entries, next_entry_id, now, call>>

(* -------------------------- delete_clock_entry ------------------------- *)

\* delete_clock_entry up to the delete
DeleteFindEntry(r, u, entry_id) ==
    /\ Begin(r, "delete_clock_entry", u, "none", entry_id, NoLocation, None)
    /\ IF entry_id \notin DOMAIN clock_entries
       THEN Finish(r, HTTPException(404, "EntryNotFound", <<>>))
       ELSE IF Role(u) = "employee" /\ clock_entries[entry_id].user_id # u
       THEN Finish(r, HTTPException(403, "NotAuthorized", <<>>))
       ELSE Suspend(r, "de_delete", NoLocal)
    /\ UNCHANGED <<projects, clock_entries, gps_logs, next_entry_id, now>>

\* delete_one({"id": entry_id}) and the response
DeleteOne(r) ==
    /\ pc[r] = "de_delete"
    /\ clock_entries' = [e \in DOMAIN clock_entries \ {call[r].entry_id} |->
                            clock_entries[e]]
    /\ Finish(r, Ok)
    /\ UNCHANGED <<projects, gps_logs, next_entry_id, now, call>>

(* -------------------------- get_admin_overview ------------------------- *)

\* seconds of a day
SecondsPerDay == 86400

\* $substr(clock_in_time, 0, 10): the date of an instant, as a day number
Date(t) == t \div SecondsPerDay

\* the query parameters of GET /admin/time-entries/overview: dates are day
\* numbers or None, the comma-separated id lists are sets, empty when the
\* parameter is None or ""
StartDates == {Null, 0, 1}

EndDates == {Null, 0}

ProjectFilters == {{}, {"p1"}}

UserFilters == {{}, {"w1"}, {"w1", "w2"}}

\* the entry matches the query built from the parameters
MatchesQuery(entry, start_date, end_date, project_ids, user_ids) ==
    /\ start_date # Null => Date(entry.clock_in_time) >= start_date
    /\ end_date # Null => Date(entry.clock_in_time) <= end_date
    /\ project_ids # {} => entry.project_id \in project_ids
    /\ user_ids # {} => entry.user_id \in user_ids

RECURSIVE SortByClockIn(_)
\* find(query).sort("clock_in_time", 1): the ids in the order of the cursor
SortByClockIn(ids) ==
    IF ids = {} THEN <<>>
    ELSE LET first == CHOOSE e \in ids :
                          \A f \in ids :
                              \/ clock_entries[e].clock_in_time
                                     < clock_entries[f].clock_in_time
                              \/ /\ clock_entries[e].clock_in_time
                                        = clock_entries[f].clock_in_time
                                 /\ e <= f
         IN  <<first>> \o SortByClockIn(ids \ {first})

(* Python floats: total_hours is a float, and the loop adds floats.  A float
   below 128 that is a multiple of 2^-59 is written as three limbs of
   LimbDigits binary digits: <<a, b, c>> is a * Limb^2 + b * Limb + c times
   2^-59, with WholeDigits digits of a before the point.  Every number of
   hundredths from 0.01 up, and every sum of them below 128, is such a
   float. *)

\* binary digits before the point
WholeDigits == 7

\* binary digits of a limb
LimbDigits == 22

\* significant binary digits of a float
Precision == 53

Limb == 2^LimbDigits

\* 0 and 0.0
Zero == <<0, 0, 0>>

\* the limbs of a * Limb^2 + b * Limb + c
Carried(a, b, c) ==
    <<a + (b + c \div Limb) \div Limb, (b + c \div Limb) % Limb, c % Limb>>

\* x + y in exact arithmetic
ExactSum(x, y) == Carried(x[1] + y[1], x[2] + y[2], x[3] + y[3])

\* the number of binary digits of k
BitLength(k) ==
    CHOOSE n \in 0..LimbDigits : k < 2^n /\ (n > 0 => k >= 2^(n - 1))

\* round to nearest, ties to even: the float nearest to x + rest / 100 times
\* 2^-59, rest < 100
RoundHalfEven(x, rest) ==
    IF x = Zero THEN Zero
    ELSE LET unit == 2^(BitLength(x[1]) + 2 * LimbDigits - Precision)
             behind == 100 * (x[3] % unit) + rest
             kept == x[3] - (x[3] % unit)
             odd == (x[3] \div unit) % 2 = 1
         IN  IF 2 * behind > 100 * unit \/ (2 * behind = 100 * unit /\ odd)
             THEN Carried(x[1], x[2], kept + unit)
             ELSE <<x[1], x[2], kept>>

\* the float of a number of hundredths, by long division, a limb at a time:
\* what round(x, 2) returns and what the document stores
Double(hundredths) ==
    LET first == hundredths * 2^(LimbDigits - WholeDigits)
        second == (first % 100) * Limb
        third == (second % 100) * Limb
    IN  RoundHalfEven(<<first \div 100, second \div 100, third \div 100>>,
                      third % 100)

\* x + y of two floats
FloatAdd(x, y) == RoundHalfEven(ExactSum(x, y), 0)

\* the number of hundredths nearest to the float x, ties to even
NearestHundredth(x) ==
    LET hundred == Carried(100 * x[1], 100 * x[2], 100 * x[3])
        point == 2^(LimbDigits - WholeDigits)
        whole == hundred[1] \div point
        behind == <<hundred[1] % point, hundred[2], hundred[3]>>
        half == <<point \div 2, 0, 0>>
    IN  IF \/ behind[1] > half[1]
           \/ behind[1] = half[1] /\ (behind[2] > 0 \/ behind[3] > 0)
           \/ behind = half /\ whole % 2 = 1
        THEN whole + 1
        ELSE whole

\* round(x, 2)
RoundTwo(x) == Double(NearestHundredth(x))

\* entry.get('total_hours', 0) or 0
HoursOrZero(entry) ==
    IF entry.total_hours = Null THEN Zero ELSE Double(entry.total_hours)

RECURSIVE SumHours(_)
\* the running sum of the loop over the entries
SumHours(entries) ==
    IF entries = <<>> THEN Zero
    ELSE FloatAdd(SumHours(SubSeq(entries, 1, Len(entries) - 1)),
                  HoursOrZero(entries[Len(entries)]))

\* the response of get_admin_overview
get_admin_overview(start_date, end_date, project_ids, user_ids) ==
    LET ids == SortByClockIn({e \in DOMAIN clock_entries :
                   MatchesQuery(clock_entries[e], start_date, end_date,
                                project_ids, user_ids)})
        processed_entries == [i \in 1..Len(ids) |-> clock_entries[ids[i]]]
        project_names == {processed_entries[i].project_name : i \in 1..Len(ids)}
        user_names == {processed_entries[i].user_name : i \in 1..Len(ids)}
        hours_per_project ==
            [n \in project_names |->
                LET OfProject(entry) == entry.project_name = n
                IN  SumHours(SelectSeq(processed_entries, OfProject))]
        hours_per_user ==
            [n \in user_names |->
                LET OfUser(entry) == entry.user_name = n
                IN  SumHours(SelectSeq(processed_entries, OfUser))]
    IN  [entries |-> processed_entries,
         total_hours |-> RoundTwo(SumHours(processed_entries)),
         hours_per_project |-> hours_per_project,
         \* dict(sorted(...)[:10]): all of them, there are at most ten users
         hours_per_user_top10 |-> hours_per_user,
         hours_per_user_all |-> hours_per_user,
         entry_count |-> Len(processed_entries)]

(* -------------------------------- clock -------------------------------- *)

\* time passes between two reads of the wall clock
Tick(t) ==
    /\ t > now
    /\ now' = t
    /\ UNCHANGED <<projects, clock_entries, gps_logs, next_entry_id,
                   pc, call, local, result>>

(* ------------------------------ responses ------------------------------ *)

\* the response of a finished invocation goes out to the client
Respond(r) ==
    /\ pc[r] = "done"
    /\ pc' = [pc EXCEPT ![r] = "idle"]
    /\ call' = [call EXCEPT ![r] = NoCall]
    /\ result' = [result EXCEPT ![r] = NoResult]
    /\ UNCHANGED <<projects, clock_entries, gps_logs, next_entry_id, now, local>>

\* no response is waiting to go out
Delivered == \A q \in Req : pc[q] # "done"

(* --------------------------- specifications ---------------------------- *)

\* invocation r may take a step when every call runs to completion before
\* the next one starts
Alone(r) == Delivered /\ \A q \in Req \ {r} : Idle(q)

\* no invocation is under way
Quiet == \A q \in Req : Idle(q)

\* invocation r may take a step when calls interleave at their awaits
AnyTime(r) == Delivered

\* The session lifecycle: two workers on one site, one call at a time.
Next ==
    \/ \E r \in Req : Respond(r)
    \/ \E r \in Req, u \in Users, p \in ProjectIds,
          l \in {OnSite, Past50}, n \in {"start"} :
           Alone(r) /\ ClockInFindActive(r, u, p, l, n)
    \/ \E r \in Req : Alone(r) /\ ClockInFindProject(r)
    \/ \E r \in Req : Alone(r) /\ ClockInInsert(r)
    \/ \E r \in Req, u \in Users, e \in EntryIds,
          l \in {At120}, n \in {None, "", "lunch"} :
           Alone(r) /\ ClockOutFindEntry(r, u, e, l, n)
    \/ \E r \in Req : Alone(r) /\ ClockOutFindProject(r)
    \/ \E r \in Req : Alone(r) /\ ClockOutUpdate(r)
    \/ \E r \in Req : Alone(r) /\ ClockOutFindUpdated(r)
    \/ \E r \in Req, u \in Users, e \in EntryIds, l \in {At120} :
           Alone(r) /\ LogGpsFindEntry(r, u, e, l)
    \/ \E r \in Req : Alone(r) /\ LogGpsFindProject(r)
    \/ \E r \in Req : Alone(r) /\ LogGpsInsert(r)
    \/ \E r \in Req, u \in Users, e \in EntryIds :
           Alone(r) /\ DeleteFindEntry(r, u, e)
    \/ \E r \in Req : Alone(r) /\ DeleteOne(r)
    \/ \E p \in ProjectIds, f \in {Kantoor} : Quiet /\ create_project(p, f)
    \/ \E p \in ProjectIds, f \in {Kantoor} : Quiet /\ update_project(p, f)
    \/ \E p \in ProjectIds : Quiet /\ delete_project(p)
    \/ \E t \in Instants : Delivered /\ Tick(t)

Spec == Init /\ [][Next]_vars

\* Admission: one worker, every form of the site record and every location,
\* one call at a time, at one instant.
GeoNext ==
    \/ \E r \in Req : Respond(r)
    \/ \E r \in Req, u \in {"w1"}, p \in ProjectIds,
          l \in Locations, n \in {None} :
           Alone(r) /\ ClockInFindActive(r, u, p, l, n)
    \/ \E r \in Req : Alone(r) /\ ClockInFindProject(r)
    \/ \E r \in Req : Alone(r) /\ ClockInInsert(r)
    \/ \E r \in Req, u \in {"w1"}, e \in EntryIds,
          l \in {OnSite, At120, At10km}, n \in {None} :
           Alone(r) /\ ClockOutFindEntry(r, u, e, l, n)
    \/ \E r \in Req : Alone(r) /\ ClockOutFindProject(r)
    \/ \E r \in Req : Alone(r) /\ ClockOutUpdate(r)
    \/ \E r \in Req : Alone(r) /\ ClockOutFindUpdated(r)
    \/ \E r \in Req, u \in {"w1"}, e \in EntryIds, l \in {At10km} :
           Alone(r) /\ LogGpsFindEntry(r, u, e, l)
    \/ \E r \in Req : Alone(r) /\ LogGpsFindProject(r)
    \/ \E r \in Req : Alone(r) /\ LogGpsInsert(r)
    \/ \E p \in ProjectIds, f \in ProjectForms : Quiet /\ create_project(p, f)
    \/ \E p \in ProjectIds, f \in ProjectForms : Quiet /\ update_project(p, f)
    \/ \E p \in ProjectIds : Quiet /\ delete_project(p)
    \/ \E p \in ProjectIds, d \in ImportedProjects : Quiet /\ import_backup(p, d)

GeoSpec == Init /\ [][GeoNext]_vars

\* Races: the calls of one worker on one site, interleaved at their awaits.
RaceNext ==
    \/ \E r \in Req : Respond(r)
    \/ \E r \in Req, u \in {"w1"}, p \in ProjectIds,
          l \in {OnSite}, n \in {"start"} :
           AnyTime(r) /\ ClockInFindActive(r, u, p, l, n)
    \/ \E r \in Req : AnyTime(r) /\ ClockInFindProject(r)
    \/ \E r \in Req : AnyTime(r) /\ ClockInInsert(r)
    \/ \E r \in Req, u \in {"w1"}, e \in EntryIds,
          l \in {At120}, n \in {None, "lunch"} :
           AnyTime(r) /\ ClockOutFindEntry(r, u, e, l, n)
    \/ \E r \in Req : AnyTime(r) /\ ClockOutFindProject(r)
    \/ \E r \in Req : AnyTime(r) /\ ClockOutUpdate(r)
    \/ \E r \in Req : AnyTime(r) /\ ClockOutFindUpdated(r)
    \/ \E r \in Req, u \in {"w1"}, e \in EntryIds, l \in {At120} :
           AnyTime(r) /\ LogGpsFindEntry(r, u, e, l)
    \/ \E r \in Req : AnyTime(r) /\ LogGpsFindProject(r)
    \/ \E r \in Req : AnyTime(r) /\ LogGpsInsert(r)
    \/ \E r \in Req, u \in {"w1"}, e \in EntryIds :
           AnyTime(r) /\ DeleteFindEntry(r, u, e)
    \/ \E r \in Req : AnyTime(r) /\ DeleteOne(r)
    \/ \E p \in ProjectIds, f \in {Kantoor} : Delivered /\ create_project(p, f)
    \/ \E t \in {0, 54} : Delivered /\ Tick(t)

RaceSpec == Init /\ [][RaceNext]_vars

\* The distance function on its own: a pair of coordinates is measured in
\* both directions.
Coordinates == [latitude : {-30, 0, 40, 90}, longitude : {-100, 100, 101, 220}]

DistanceInit ==
    /\ projects = Empty
    /\ clock_entries = Empty
    /\ gps_logs = <<>>
    /\ next_entry_id = 1
    /\ now = 0
    /\ pc = [r \in Req |-> "idle"]
    /\ \E from \in Coordinates, to \in Coordinates :
           /\ call = [r \in Req |->
                         IF r = 1
                         THEN [NoCall EXCEPT !.op = "calculate_distance",
                                             !.location = from]
                         ELSE NoCall]
           /\ local = [r \in Req |-> IF r = 1 THEN [to |-> to] ELSE NoLocal]
    /\ result = [r \in Req |-> NoResult]

\* calculate_distance(from, to)
MeasureThere(r) ==
    /\ pc[r] = "idle"
    /\ call[r].op = "calculate_distance"
    /\ Suspend(r, "measure_back",
           [to |-> local[r].to,
            there |-> calculate_distance(call[r].location.latitude,
                                         call[r].location.longitude,
                                         local[r].to.latitude,
                                         local[r].to.longitude)])
    /\ UNCHANGED <<projects, clock_entries, gps_logs, next_entry_id, now, call>>

\* calculate_distance(to, from); both distances are the result
MeasureBack(r) ==
    /\ pc[r] = "measure_back"
    /\ pc' = [pc EXCEPT ![r] = "done"]
    /\ result' = [result EXCEPT ![r] =
                     [Ok EXCEPT !.detail =
                         <<local[r].there,
                           calculate_distance(local[r].to.latitude,
                                              local[r].to.longitude,
                                              call[r].location.latitude,
                                              call[r].location.longitude)>>]]
    /\ UNCHANGED <<projects, clock_entries, gps_logs, next_entry_id, now,
                   call, local>>

DistanceNext ==
    \/ \E r \in Req : MeasureThere(r)
    \/ \E r \in Req : MeasureBack(r)

DistanceSpec == DistanceInit /\ [][DistanceNext]_vars

\* The overview on its own: the admin asks for the overview of sessions that
\* the collection already holds.

\* durations in seconds: 4.5 hours and 4.7 hours
Durations == {16200, 16920}

\* a session as clock_in stored it at the instant opened and, unless seconds
\* is None, as clock_out closed it that many seconds later
StoredSession(u, project, opened, seconds) ==
    LET open == [ClockEntry(u, "p1", project, OnSite, None, 0, <<>>, "True")
                     EXCEPT !.clock_in_time = opened]
    IN  IF seconds = Null THEN open
        ELSE [open EXCEPT !.clock_out_time = opened + seconds,
                          !.clock_out_location = OnSite,
                          !.total_hours = RoundHours(seconds),
                          !.status = "clocked_out"]

\* the first session of the collection was opened a day after the others
OpenedAt(e) == IF e = 1 THEN SecondsPerDay ELSE 0

\* the sessions are of both workers, at the site under its two names
OverviewInit ==
    /\ projects = Empty
    /\ now = 0
    /\ \E stored \in 0..MaxStored :
           \E who \in [1..stored -> Users],
              site \in [1..stored -> {Kantoor, Loods}],
              seconds \in [1..stored -> Durations \cup {Null}] :
               clock_entries =
                   [e \in 1..stored |->
                       StoredSession(who[e], site[e], OpenedAt(e), seconds[e])]
    /\ gps_logs = <<>>
    /\ next_entry_id = 1
    /\ pc = [r \in Req |-> "idle"]
    /\ call = [r \in Req |-> NoCall]
    /\ local = [r \in Req |-> NoLocal]
    /\ result = [r \in Req |-> NoResult]

\* GET /admin/time-entries/overview by the admin
Overview(r, start_date, end_date, project_ids, user_ids) ==
    /\ Begin(r, "get_admin_overview", "w2", "none", 0, NoLocation, None)
    /\ Finish(r, [Ok EXCEPT !.detail =
                     <<get_admin_overview(start_date, end_date,
                                          project_ids, user_ids)>>])
    /\ UNCHANGED <<projects, clock_entries, gps_logs, next_entry_id, now>>

OverviewNext ==
    \/ \E r \in Req : Respond(r)
    \/ \E r \in Req, start_date \in StartDates, end_date \in EndDates,
          project_ids \in ProjectFilters, user_ids \in UserFilters :
           Alone(r) /\ Overview(r, start_date, end_date, project_ids, user_ids)

OverviewSpec == OverviewInit /\ [][OverviewNext]_vars

(* ------------------------------- claims -------------------------------- *)

\* the sessions of worker u with status Open
OpenSessions(u) ==
    {e \in DOMAIN clock_entries :
        clock_entries[e].user_id = u /\ clock_entries[e].status = "clocked_in"}

\* the sessions with status Closed
ClosedSessions ==
    {e \in DOMAIN clock_entries : clock_entries[e].status = "clocked_out"}

\* this step is the first step of a call of handler op by invocation r
Begins(r, op) == pc[r] = "idle" /\ call'[r].op = op

\* this step is the project lookup of the clock_in of invocation r
LooksUpSite(r) == pc[r] = "ci_find_project" /\ pc'[r] # "ci_find_project"

\* invocation r ends in this step with the error kind
FailsWith(r, kind) == pc'[r] = "done" /\ result'[r].error = kind

\* C1: with one call at a time, every worker has at most one session with
\* status Open in every reachable state.
C1_AtMostOneOpen ==
    \A u \in Users : Cardinality(OpenSessions(u)) <= 1

\* C1 witness: a clock_in of a worker with an Open session and a Closed one
\* has just been turned down.
C1_Witness ==
    \E r \in Req :
        /\ pc[r] = "done"
        /\ call[r].op = "clock_in"
        /\ result[r].error = "AlreadyClockedIn"
        /\ Cardinality(OpenSessions(call[r].user)) = 1
        /\ \E e \in ClosedSessions : clock_entries[e].user_id = call[r].user

\* C2: when two clock_in calls of one worker interleave at the read of the
\* open session and the insert, one of them fails with AlreadyClockedIn and
\* no state holds two Open sessions of that worker.
C2_RaceOneWinner ==
    \A u \in Users : \A e1, e2 \in OpenSessions(u) : e1 = e2

\* C3: a clock_in by a worker who has an Open session fails with
\* AlreadyClockedIn whatever the site and the location of the request, and
\* leaves the sessions unchanged.
C3_SecondClockInRejected ==
    [][\A r \in Req :
          (Begins(r, "clock_in") /\ OpenSessions(call'[r].user) # {})
          => (FailsWith(r, "AlreadyClockedIn") /\ clock_entries' = clock_entries)
      ]_vars

\* C3 witness: AlreadyClockedIn for a request 10 km away from a deactivated
\* site.
C3_Witness ==
    \E r \in Req :
        /\ pc[r] = "done"
        /\ call[r].op = "clock_in"
        /\ result[r].error = "AlreadyClockedIn"
        /\ call[r].location = At10km
        /\ call[r].project_id \in DOMAIN projects
        /\ ~projects[call[r].project_id].active

\* the site record has a latitude and a longitude
HasCoordinate(project) ==
    /\ project.latitude \notin {Null, Absent}
    /\ project.longitude \notin {Null, Absent}

\* the distance between the location of the request and the site, in metres
\* times Centi
MeasuredDistance(r) ==
    calculate_distance(call[r].location.latitude, call[r].location.longitude,
                       projects[call[r].project_id].latitude,
                       projects[call[r].project_id].longitude)

\* the clock_in of invocation r creates an Open session in this step
CreatesOpenSession(r) ==
    /\ pc[r] = "ci_insert" /\ pc'[r] = "done" /\ result'[r] = Ok
    /\ \E e \in DOMAIN clock_entries' \ DOMAIN clock_entries :
           /\ DOMAIN clock_entries' = DOMAIN clock_entries \cup {e}
           /\ clock_entries'[e].user_id = call[r].user
           /\ clock_entries'[e].status = "clocked_in"

\* C4: for a worker with no Open session and an active site that has a
\* coordinate, clock_in creates an Open session when the distance is at most
\* 50 m and fails with OutOfRangeError, creating no session, when it is more.
C4_AdmissionBoundary ==
    [][\A r \in Req :
          /\ (/\ LooksUpSite(r)
              /\ OpenSessions(call[r].user) = {}
              /\ call[r].project_id \in DOMAIN projects
              /\ projects[call[r].project_id].active
              /\ HasCoordinate(projects[call[r].project_id]))
             => IF MeasuredDistance(r) <= 50 * Centi
                THEN pc'[r] = "ci_insert"
                ELSE /\ FailsWith(r, "OutOfRangeError")
                     /\ clock_entries' = clock_entries
          /\ (pc[r] = "ci_insert" /\ pc'[r] # "ci_insert") => CreatesOpenSession(r)
      ]_vars

\* C5: a clock_in against a site without a coordinate fails with
\* SiteMissingLocation and creates no session; a session is only ever created
\* by a clock_in whose site had a coordinate when it was looked up.
C5_NoCoordinateNoSession ==
    [][/\ \A r \in Req :
             (/\ LooksUpSite(r)
              /\ call[r].project_id \in DOMAIN projects
              /\ projects[call[r].project_id].active)
             => IF HasCoordinate(projects[call[r].project_id])
                THEN TRUE
                ELSE /\ FailsWith(r, "SiteMissingLocation")
                     /\ clock_entries' = clock_entries
       /\ \A r \in Req :
             pc'[r] = "ci_insert" /\ pc[r] # "ci_insert"
             => /\ LooksUpSite(r)
                /\ call[r].project_id \in DOMAIN projects
                /\ HasCoordinate(projects[call[r].project_id])
       /\ \A e \in DOMAIN clock_entries' \ DOMAIN clock_entries :
             \E r \in Req : pc[r] = "ci_insert" /\ local[r].id = e
      ]_vars

\* C5 witness: SiteMissingLocation for a request from the place of a site
\* that other sessions were admitted at before its coordinate was removed.
C5_Witness ==
    \E r \in Req :
        /\ pc[r] = "done"
        /\ call[r].op = "clock_in"
        /\ result[r].error = "SiteMissingLocation"
        /\ call[r].location = OnSite
        /\ projects[call[r].project_id].latitude = Null
        /\ clock_entries # Empty

\* C6: a clock_in that names a site id that does not exist, or a deactivated
\* site, fails with SiteNotFound and creates no session.
C6_SiteNotFound ==
    [][\A r \in Req :
          (/\ LooksUpSite(r)
           /\ \/ call[r].project_id \notin DOMAIN projects
              \/ ~projects[call[r].project_id].active)
          => (FailsWith(r, "SiteNotFound") /\ clock_entries' = clock_entries)
      ]_vars

\* C6 witness: SiteNotFound for a request from the place of a site that has
\* a coordinate and was deactivated.
C6_Witness ==
    \E r \in Req :
        /\ pc[r] = "done"
        /\ call[r].op = "clock_in"
        /\ result[r].error = "SiteNotFound"
        /\ call[r].location = OnSite
        /\ call[r].project_id \in DOMAIN projects
        /\ ~projects[call[r].project_id].active
        /\ HasCoordinate(projects[call[r].project_id])

\* C7: in every state, also between the steps of interleaved clock_out
\* calls, a session has clock_out_time set if and only if its status is
\* Closed.
C7_ClosedAtIffClosed ==
    \A e \in DOMAIN clock_entries :
        (clock_entries[e].clock_out_time # Null)
            <=> (clock_entries[e].status = "clocked_out")

\* C7 witness: a session was closed by one clock_out while a second clock_out
\* of the same session is suspended before its update.
C7_Witness ==
    \E r \in Req :
        /\ pc[r] = "co_update"
        /\ call[r].entry_id \in ClosedSessions
        /\ clock_entries[call[r].entry_id].clock_out_time # Null

\* C8: with one call at a time, a session has total_hours present if and
\* only if its status is Closed.
C8_HoursIffClosed ==
    \A e \in DOMAIN clock_entries :
        (clock_entries[e].total_hours # Null)
            <=> (clock_entries[e].status = "clocked_out")

\* C8 witness: a session closed in the instant it was opened, with 0.0 hours,
\* next to an Open session.
C8_Witness ==
    /\ \E e \in ClosedSessions :
           /\ clock_entries[e].total_hours = 0
           /\ clock_entries[e].clock_out_time = clock_entries[e].clock_in_time
    /\ \E e \in DOMAIN clock_entries : clock_entries[e].status = "clocked_in"

\* C9: a session with status Closed has status Closed in every later state
\* in which it exists.
C9_ClosedStaysClosed ==
    [][\A e \in DOMAIN clock_entries \cap DOMAIN clock_entries' :
          clock_entries[e].status = "clocked_out"
          => clock_entries'[e].status = "clocked_out"
      ]_vars

\* C9 witness: the owner of a Closed session has clocked in again and a
\* position of the new session was logged.
C9_Witness ==
    \E e1 \in ClosedSessions, e2 \in DOMAIN clock_entries :
        /\ clock_entries[e2].user_id = clock_entries[e1].user_id
        /\ clock_entries[e2].status = "clocked_in"
        /\ clock_entries[e2].clock_in_time > clock_entries[e1].clock_out_time
        /\ Len(gps_logs) > 0

\* C10: a clock_out by the owner on a Closed session fails with
\* AlreadyClosed and leaves every field of the session unchanged.
C10_DoubleCloseRejected ==
    [][\A r \in Req :
          (/\ Begins(r, "clock_out")
           /\ call'[r].entry_id \in ClosedSessions
           /\ clock_entries[call'[r].entry_id].user_id = call'[r].user)
          => (FailsWith(r, "AlreadyClosed") /\ clock_entries' = clock_entries)
      ]_vars

\* C10 witness: AlreadyClosed for a clock_out that came later than the first
\* one and with another note.
C10_Witness ==
    \E r \in Req :
        /\ pc[r] = "done"
        /\ call[r].op = "clock_out"
        /\ result[r].error = "AlreadyClosed"
        /\ call[r].note = "lunch"
        /\ clock_entries[call[r].entry_id].note = "start"
        /\ clock_entries[call[r].entry_id].clock_out_time < now

\* C11: when two clock_out calls for the same Open session interleave at the
\* read of the session and the update, clock_out_time and total_hours are
\* written once: a session that has them keeps their values in every later
\* state.
C11_ClosedOnce ==
    [][\A e \in DOMAIN clock_entries \cap DOMAIN clock_entries' :
          clock_entries[e].clock_out_time # Null
          => /\ clock_entries'[e].clock_out_time = clock_entries[e].clock_out_time
             /\ clock_entries'[e].total_hours = clock_entries[e].total_hours
      ]_vars

\* C12: a clock_out by the owner on an Open session succeeds and sets the
\* status to Closed, for every location of the request and every stored form
\* of the site record: no step of the call fails.
C12_ClockOutNeverBlocked ==
    [][\A r \in Req :
          /\ (/\ Begins(r, "clock_out")
              /\ call'[r].entry_id \in OpenSessions(call'[r].user))
             => pc'[r] = "co_find_project"
          /\ (pc[r] = "co_find_project" /\ pc'[r] # "co_find_project")
             => pc'[r] = "co_update"
          /\ (pc[r] = "co_update" /\ pc'[r] # "co_update")
             => /\ call[r].entry_id \in DOMAIN clock_entries'
                /\ clock_entries'[call[r].entry_id].status = "clocked_out"
          /\ (pc[r] = "co_find_updated" /\ pc'[r] # "co_find_updated")
             => result'[r] = Ok
      ]_vars

\* C13: after a clock_out of a session whose site has a coordinate, the
\* session has clock_out_distance_m equal to the distance between the closing
\* location and the site, clock_out_match = (distance <= 250 m), and a
\* clock_out_warning if and only if the distance exceeds the advisory radius
\* of the site.
C13_ClosingVerdict ==
    [][\A r \in Req :
          (/\ pc[r] = "co_update" /\ pc'[r] # "co_update"
           /\ call[r].entry_id \in DOMAIN clock_entries'
           /\ clock_entries'[call[r].entry_id].project_id \in DOMAIN projects
           /\ HasCoordinate(projects[clock_entries'[call[r].entry_id].project_id]))
          => LET closed == clock_entries'[call[r].entry_id]
                 site == projects[closed.project_id]
                 distance == calculate_distance(closed.clock_out_location.latitude,
                                                closed.clock_out_location.longitude,
                                                site.latitude, site.longitude)
             IN  /\ closed.clock_out_distance_m = distance
                 /\ closed.clock_out_match
                        = PyBool(distance <= DEFAULT_PROJECT_MATCH_RADIUS * Centi)
                 /\ (closed.clock_out_warning # <<>>)
                        <=> (distance > site.location_radius * Centi)
      ]_vars

\* C14: the project_name, company and project_location stored on a session
\* at clock_in are the same in every later state of the session: no step of
\* update_project, delete_project, clock_out or log_gps_position changes them.
C14_SiteFieldsFrozen ==
    [][\A e \in DOMAIN clock_entries \cap DOMAIN clock_entries' :
          /\ clock_entries'[e].project_name = clock_entries[e].project_name
          /\ clock_entries'[e].company = clock_entries[e].company
          /\ clock_entries'[e].project_location = clock_entries[e].project_location
      ]_vars

\* C14 witness: a session with a logged position was closed, and its site was
\* given another name, company and label and then deactivated.
C14_Witness ==
    \E e \in ClosedSessions :
        LET site == projects[clock_entries[e].project_id]
        IN  /\ ~site.active
            /\ site.name # clock_entries[e].project_name
            /\ site.company # clock_entries[e].company
            /\ site.location # clock_entries[e].project_location
            /\ \E i \in 1..Len(gps_logs) : gps_logs[i].entry_id = e

\* C15: a log_gps_position on a session whose status is not Open fails and
\* appends no PositionLog; called by the owner of the session it fails with
\* SessionNotActive.
C15_LogNeedsOpenSession ==
    [][\A r \in Req :
          (/\ Begins(r, "log_gps_position")
           /\ call'[r].entry_id \in DOMAIN clock_entries
           /\ clock_entries[call'[r].entry_id].status # "clocked_in")
          => /\ pc'[r] = "done"
             /\ result'[r] # Ok
             /\ gps_logs' = gps_logs
             /\ clock_entries[call'[r].entry_id].user_id = call'[r].user
                => FailsWith(r, "SessionNotActive")
      ]_vars

\* C15 witness: SessionNotActive for the owner of a Closed session, with no
\* PositionLog in the collection.
C15_Witness ==
    \E r \in Req :
        /\ pc[r] = "done"
        /\ call[r].op = "log_gps_position"
        /\ result[r].error = "SessionNotActive"
        /\ call[r].entry_id \in ClosedSessions
        /\ clock_entries[call[r].entry_id].user_id = call[r].user
        /\ gps_logs = <<>>

\* this step is a step of a log_gps_position call of invocation r
LogStep(r) ==
    /\ call'[r].op = "log_gps_position" \/ call[r].op = "log_gps_position"
    /\ pc'[r] # pc[r]

\* C16: a successful log_gps_position appends exactly one PositionLog, leaves
\* every PositionLog that was there unchanged and leaves every field of every
\* session unchanged.
C16_LogAppendsOne ==
    [][\A r \in Req :
          /\ LogStep(r) => clock_entries' = clock_entries
          /\ (LogStep(r) /\ pc[r] # "gl_insert") => gps_logs' = gps_logs
          /\ (pc[r] = "gl_insert" /\ pc'[r] = "done" /\ result'[r] = Ok)
             => /\ Len(gps_logs') = Len(gps_logs) + 1
                /\ SubSeq(gps_logs', 1, Len(gps_logs)) = gps_logs
                /\ gps_logs'[Len(gps_logs')].entry_id = call[r].entry_id
                /\ gps_logs'[Len(gps_logs')].location = call[r].location
      ]_vars

\* C16 witness: a second position of an Open session was logged at a later
\* instant than the first.
C16_Witness ==
    \E r \in Req :
        /\ pc[r] = "done"
        /\ call[r].op = "log_gps_position"
        /\ result[r] = Ok
        /\ Len(gps_logs) = 2
        /\ gps_logs[1].timestamp < gps_logs[2].timestamp
        /\ gps_logs[2].entry_id = call[r].entry_id
        /\ clock_entries[call[r].entry_id].status = "clocked_in"

\* the session e exists and is owned by another worker than u
OwnedByOther(e, u) ==
    e \in DOMAIN clock_entries /\ clock_entries[e].user_id # u

\* C17: a clock_out or a log_gps_position by a worker on a session owned by
\* another worker fails (clock_out with NotAuthorized) and leaves all sessions
\* and all PositionLogs unchanged; a field of a session changes, and a
\* PositionLog of a session is appended, only in a step of a call of the
\* worker who owns the session.
C17_OwnerOnly ==
    [][/\ \A r \in Req :
             (/\ Begins(r, "clock_out")
              /\ OwnedByOther(call'[r].entry_id, call'[r].user))
             => /\ FailsWith(r, "NotAuthorized")
                /\ clock_entries' = clock_entries
                /\ gps_logs' = gps_logs
       /\ \A r \in Req :
             (/\ Begins(r, "log_gps_position")
              /\ OwnedByOther(call'[r].entry_id, call'[r].user))
             => /\ pc'[r] = "done"
                /\ result'[r] # Ok
                /\ clock_entries' = clock_entries
                /\ gps_logs' = gps_logs
       /\ \A e \in DOMAIN clock_entries \cap DOMAIN clock_entries' :
             clock_entries'[e] # clock_entries[e]
             => \E r \in Req :
                    /\ pc'[r] # pc[r]
                    /\ call[r].entry_id = e
                    /\ call[r].user = clock_entries[e].user_id
       /\ gps_logs' # gps_logs
             => \E r \in Req :
                    /\ pc'[r] # pc[r]
                    /\ gps_logs'[Len(gps_logs')].entry_id = call[r].entry_id
                    /\ gps_logs'[Len(gps_logs')].user_id = call[r].user
                    /\ call[r].entry_id \in DOMAIN clock_entries
                       => clock_entries[call[r].entry_id].user_id = call[r].user
      ]_vars

\* C17 witness: NotAuthorized for a clock_out on the Open session of another
\* worker, a session that has a PositionLog.
C17_Witness ==
    \E r \in Req :
        /\ pc[r] = "done"
        /\ call[r].op = "clock_out"
        /\ result[r].error = "NotAuthorized"
        /\ OwnedByOther(call[r].entry_id, call[r].user)
        /\ clock_entries[call[r].entry_id].status = "clocked_in"
        /\ \E i \in 1..Len(gps_logs) : gps_logs[i].entry_id = call[r].entry_id

\* C18: for a session opened at T and closed at T + d seconds, total_hours is
\* d / 3600 rounded to two decimals, that is a hundredth of an hour nearest
\* to d / 3600; closing 4 h 30 min after opening gives total_hours = 4.5.
C18_DurationRounded ==
    \A e \in ClosedSessions :
        LET d == clock_entries[e].clock_out_time - clock_entries[e].clock_in_time
            hundredths == clock_entries[e].total_hours
        IN  /\ 36 * hundredths - d <= 18
            /\ d - 36 * hundredths <= 18
            /\ d = 16200 => hundredths = 450

\* C18 witness: a session was closed 4 h 30 min after it was opened, another
\* one after a time that is not a whole number of hundredths of an hour.
C18_Witness ==
    \E e1, e2 \in ClosedSessions :
        /\ clock_entries[e1].clock_out_time - clock_entries[e1].clock_in_time = 16200
        /\ clock_entries[e1].total_hours = 450
        /\ (clock_entries[e2].clock_out_time - clock_entries[e2].clock_in_time) % 36 # 0

\* the Closed sessions with a duration that match the filter of an overview
CountedSessions(start_date, end_date, project_ids, user_ids) ==
    {e \in ClosedSessions :
        /\ clock_entries[e].total_hours # Null
        /\ MatchesQuery(clock_entries[e], start_date, end_date,
                        project_ids, user_ids)}

RECURSIVE SumOfDurations(_)
\* the sum of total_hours over a set of Closed sessions
SumOfDurations(sessions) ==
    IF sessions = {} THEN 0
    ELSE LET e == CHOOSE x \in sessions : TRUE
         IN  clock_entries[e].total_hours + SumOfDurations(sessions \ {e})

\* C19: the admin overview sums total_hours per site and per worker over
\* Closed sessions only: a session that is Open or has no total_hours is not
\* among the entries counted and adds nothing to a total, and the total of a
\* site is the sum of the durations of the Closed sessions of that site that
\* match the filter.
C19_OverviewClosedOnly ==
    \A start_date \in StartDates, end_date \in EndDates,
       project_ids \in ProjectFilters, user_ids \in UserFilters :
        LET overview == get_admin_overview(start_date, end_date,
                                           project_ids, user_ids)
            counted == CountedSessions(start_date, end_date,
                                       project_ids, user_ids)
        IN  /\ \A i \in 1..Len(overview.entries) :
                   /\ overview.entries[i].status = "clocked_out"
                   /\ overview.entries[i].total_hours # Null
            /\ overview.entry_count = Cardinality(counted)
            /\ NearestHundredth(overview.total_hours) = SumOfDurations(counted)
            /\ \A n \in DOMAIN overview.hours_per_project :
                   NearestHundredth(overview.hours_per_project[n]) =
                       SumOfDurations({e \in counted :
                                          clock_entries[e].project_name = n})
            /\ \A n \in DOMAIN overview.hours_per_user_all :
                   NearestHundredth(overview.hours_per_user_all[n]) =
                       SumOfDurations({e \in counted :
                                          clock_entries[e].user_name = n})

C21_AdmissionVerdict ==
    [][\A r \in Req :
          /\ (LooksUpSite(r) /\ pc'[r] = "ci_insert")
             => LET entry == local'[r].entry
                    site == projects[call[r].project_id]
                    distance == MeasuredDistance(r)
                    radius == IF site.location_radius = Absent
                              THEN 100 ELSE site.location_radius
                IN  /\ entry.distance_to_project_m = distance
                    /\ entry.project_match = PyBool(distance <= 250 * Centi)
                    /\ (entry.location_warning # <<>>)
                           <=> (distance > radius * Centi)
          /\ (pc[r] = "ci_insert" /\ pc'[r] # "ci_insert")
             => /\ local[r].id \in DOMAIN clock_entries'
                /\ clock_entries'[local[r].id] = local[r].entry
      ]_vars

\* C21 witness: a session admitted 50 m from a site without location_radius
\* has no warning; a later session admitted 50 m from the same site, then
\* with a location_radius of 30 m, has one.
C21_Witness ==
    \E e1, e2 \in DOMAIN clock_entries :
        /\ clock_entries[e1].project_name = "Werf"
        /\ clock_entries[e1].distance_to_project_m = 50 * Centi
        /\ clock_entries[e1].location_warning = <<>>
        /\ clock_entries[e1].project_match = "True"
        /\ clock_entries[e2].project_name = "Loods"
        /\ clock_entries[e2].distance_to_project_m = 50 * Centi
        /\ clock_entries[e2].location_warning # <<>>
        /\ clock_entries[e2].project_match = "True"

\* C22: a clock_out that supplies a note (a text that is not empty) replaces
\* the note of the session with it; a clock_out that supplies none leaves the
\* note given at clock_in unchanged.
C22_NoteReplacedOrKept ==
    [][\A r \in Req :
          (/\ pc[r] = "co_update" /\ pc'[r] # "co_update"
           /\ call[r].entry_id \in DOMAIN clock_entries)
          => /\ call[r].entry_id \in DOMAIN clock_entries'
             /\ clock_entries'[call[r].entry_id].note =
                    IF call[r].note \notin {None, ""}
                    THEN call[r].note
                    ELSE clock_entries[call[r].entry_id].note
      ]_vars

\* C22 witness: a clock_out without a note has closed a session that keeps
\* the note of its clock_in, next to a session closed with another note.
C22_Witness ==
    \E r \in Req, e \in ClosedSessions :
        /\ pc[r] = "done"
        /\ call[r].op = "clock_out"
        /\ result[r] = Ok
        /\ call[r].note = None
        /\ call[r].entry_id \in ClosedSessions
        /\ clock_entries[call[r].entry_id].note = "start"
        /\ clock_entries[e].note = "lunch"

\* C23: the error of a clock_in rejected for distance carries the measured
\* distance and the limit of 50 m, and the distance it reports is greater
\* than the limit it reports.
C23_ReportedDistanceOverLimit ==
    [][\A r \in Req :
          FailsWith(r, "OutOfRangeError")
          => /\ Len(result'[r].detail) = 2
             /\ result'[r].detail[2] = 50
             /\ result'[r].detail[1] > result'[r].detail[2]
      ]_vars

\* C24: every session created by clock_in has distance_to_project_m <= 50 m
\* and therefore project_match = true; a location_warning is present only on
\* a session whose site had a location_radius below 50 m.
C24_AdmittedWithinStrictRadius ==
    [][/\ \A r \in Req :
             (LooksUpSite(r) /\ pc'[r] = "ci_insert")
             => LET entry == local'[r].entry
                    site == projects[call[r].project_id]
                IN  /\ entry.distance_to_project_m <= 50 * Centi
                    /\ entry.project_match = "True"
                    /\ entry.location_warning # <<>>
                       => /\ site.location_radius \notin {Absent, Null}
                          /\ site.location_radius < 50
       /\ \A e \in DOMAIN clock_entries' :
             /\ clock_entries'[e].distance_to_project_m <= 50 * Centi
             /\ clock_entries'[e].project_match = "True"
      ]_vars

\* C24 witness: a session admitted at exactly 50 m, with a warning, has been
\* closed.
C24_Witness ==
    \E e \in ClosedSessions :
        /\ clock_entries[e].distance_to_project_m = 50 * Centi
        /\ clock_entries[e].project_match = "True"
        /\ clock_entries[e].location_warning = <<50>>

\* C25: when a log_gps_position and a clock_out for the same session
\* interleave at their reads and writes, no PositionLog is appended for the
\* session after its status has become Closed.
C25_NoLogAfterClose ==
    [][Len(gps_logs') > Len(gps_logs)
       => LET gps_log == gps_logs'[Len(gps_logs')]
          IN  gps_log.entry_id \in DOMAIN clock_entries
              => clock_entries[gps_log.entry_id].status # "clocked_out"
      ]_vars

\* session e1 is Closed and was closed not later than e2 was opened
EndsBefore(e1, e2) ==
    /\ clock_entries[e1].status = "clocked_out"
    /\ clock_entries[e1].clock_out_time <= clock_entries[e2].clock_in_time

\* C26: with one call at a time, the sessions of one worker do not overlap in
\* time: of any two sessions of the same worker, the one opened earlier is
\* Closed with clock_out_time not later than the clock_in_time of the other.
C26_SessionsDoNotOverlap ==
    \A e1, e2 \in DOMAIN clock_entries :
        (e1 # e2 /\ clock_entries[e1].user_id = clock_entries[e2].user_id)
        => /\ EndsBefore(e1, e2) \/ EndsBefore(e2, e1)
           /\ clock_entries[e1].clock_in_time < clock_entries[e2].clock_in_time
              => EndsBefore(e1, e2)

\* C26 witness: a worker has a session closed after 54 s and a second one,
\* opened at the instant the first was closed and closed 4 h 30 min later.
C26_Witness ==
    \E e1, e2 \in ClosedSessions :
        /\ clock_entries[e1].user_id = clock_entries[e2].user_id
        /\ clock_entries[e1].clock_in_time = 0
        /\ clock_entries[e1].clock_out_time = 54
        /\ clock_entries[e2].clock_in_time = 54
        /\ clock_entries[e2].clock_out_time = 16254

\* C27: clock_in fails with SiteMissingLocation only when the latitude or the
\* longitude of the site is absent; a site whose stored latitude or longitude
\* is the number 0 has a coordinate and admits a worker within 50 m of it.
C27_ZeroIsACoordinate ==
    [][\A r \in Req :
          /\ (LooksUpSite(r) /\ FailsWith(r, "SiteMissingLocation"))
             => /\ call[r].project_id \in DOMAIN projects
                /\ ~HasCoordinate(projects[call[r].project_id])
          /\ (/\ LooksUpSite(r)
              /\ call[r].project_id \in DOMAIN projects
              /\ projects[call[r].project_id].active
              /\ \/ projects[call[r].project_id].latitude = 0
                 \/ projects[call[r].project_id].longitude = 0
              /\ HasCoordinate(projects[call[r].project_id])
              /\ projects[call[r].project_id].location_radius # Null
              /\ MeasuredDistance(r) <= 50 * Centi)
             => pc'[r] = "ci_insert"
      ]_vars

\* C28: an Open session can always be closed by its owner: also after its
\* site was edited or deactivated, a clock_out that the owner starts on the
\* Open session ends with success and leaves the session Closed.
C28_OwnerCanAlwaysClose ==
    [][\A r \in Req :
          (/\ call[r].op = "clock_out"
           /\ pc[r] \in {"co_find_project", "co_update", "co_find_updated"}
           /\ pc'[r] = "done")
          => /\ result'[r] = Ok
             /\ call[r].entry_id \in DOMAIN clock_entries'
             /\ clock_entries'[call[r].entry_id].status = "clocked_out"
      ]_vars

\* C29: after the Open session of a worker was Closed by clock_out or removed
\* by delete_clock_entry, the next clock_in of the worker is not rejected with
\* AlreadyClockedIn, however many Closed sessions the worker has; it creates
\* an Open session when the site is active, has a coordinate and is within
\* 50 m.
C29_ClockInAgain ==
    [][\A r \in Req :
          /\ (Begins(r, "clock_in") /\ OpenSessions(call'[r].user) = {})
             => ~FailsWith(r, "AlreadyClockedIn")
          /\ (/\ LooksUpSite(r)
              /\ OpenSessions(call[r].user) = {}
              /\ \E e \in ClosedSessions : clock_entries[e].user_id = call[r].user
              /\ call[r].project_id \in DOMAIN projects
              /\ projects[call[r].project_id].active
              /\ HasCoordinate(projects[call[r].project_id])
              /\ MeasuredDistance(r) <= 50 * Centi)
             => pc'[r] = "ci_insert"
          /\ (pc[r] = "ci_insert" /\ pc'[r] # "ci_insert" /\ pc[r] # pc'[r])
             => /\ result'[r] = Ok
                /\ local[r].id \in DOMAIN clock_entries'
                /\ clock_entries'[local[r].id].status = "clocked_in"
      ]_vars

RECURSIVE SumValues(_)
\* sum(totals.values()): the values of a dict added up
SumValues(totals) ==
    IF DOMAIN totals = {} THEN Zero
    ELSE LET n == CHOOSE k \in DOMAIN totals : TRUE
         IN  FloatAdd(SumValues([k \in DOMAIN totals \ {n} |-> totals[k]]),
                      totals[n])

\* C30: in the result of get_admin_overview, total_hours before it is rounded
\* (the running sum of the loop over the returned entries) equals the sum of
\* the hours_per_project values and equals the sum of the hours_per_user_all
\* values, and entry_count equals the number of returned entries, for every
\* set of stored sessions and every filter.
C30_OverviewTotalsAgree ==
    \A r \in Req :
        (pc[r] = "done" /\ call[r].op = "get_admin_overview")
        => LET overview == result[r].detail[1]
               total_hours == SumHours(overview.entries)
           IN  /\ total_hours = SumValues(overview.hours_per_project)
               /\ total_hours = SumValues(overview.hours_per_user_all)
               /\ overview.entry_count = Len(overview.entries)

====
